---- MODULE Spec2Model ----
(***************************************************************************)
(* A model of the EVMAuth Next.js authorization pipeline:                  *)
(*   - the challenge store and signature verification (lib/evmauth/auth),  *)
(*   - session tokens (lib/evmauth/jwt-utils),                             *)
(*   - the path configuration (lib/evmauth/config),                        *)
(*   - token validation (lib/evmauth/token-validator, blockchain),         *)
(*   - the middleware and its helpers (middleware, middleware-helpers,     *)
(*     response-utils, error-utils),                                       *)
(*   - the demo login (lib/evmauth/auth, api/auth/login-demo),             *)
(* and of the SDK's contract event subscriptions (src/evmauth).            *)
(* Strings the code takes apart (wallet addresses, paths) are sequences;   *)
(* strings it only compares are TLA+ strings.                              *)
(***************************************************************************)
EXTENDS Integers, Sequences, FiniteSets, TLC

VARIABLES
    now,              \* Date.now(), in ticks (TicksPerSec ticks to the second)
    JWT_SECRET,       \* process.env.JWT_SECRET ("" when not set)
    CHALLENGE_STORE,  \* nonce -> {challenge, expiresAt}; a key is in DOMAIN iff stored
    timers,           \* pending setTimeout cleanups: {[nonce, due]}
    nextNonce,        \* nanoid(): the next fresh nonce
    callerPc,         \* authenticateUser calls in flight: position of each caller
    callerCall,       \* arguments and locals of each caller's authenticateUser call
    callerResult,     \* the AuthResult each caller last got
    issued,           \* session tokens signed so far
    lastVerify,       \* observation of the latest verifySignature call
    histExpiresAt,    \* observation: expiresAt given to each generated nonce
    histCalled,       \* observation: whether verifySignature was called on each generated nonce
    histSuccesses,    \* observation: non-null verifySignature returns per nonce
    val,              \* the validateToken call in progress, and its result
    mwPc,             \* the middleware call in progress: its position
    request,          \* the request it handles
    token,            \* processAuth: the token extracted
    authPayload,      \* processAuth: the payload verifyAuthToken returned
    result,           \* the MiddlewareResult of processAuth
    response,         \* the response the middleware returned
    fn,               \* a function applied on its own: its arguments and what it returned
    listeners,        \* the SDK's contract object: the listeners registered with on()
    subscriptions,    \* observation: what each callback was subscribed to, and its state
    emitted,          \* observation: the contract event that has just occurred
    invoked           \* observation: the callbacks that event reached

challengeVars == <<CHALLENGE_STORE, timers, nextNonce, callerPc, callerCall,
                   callerResult, issued, lastVerify, histExpiresAt, histCalled,
                   histSuccesses>>

requestVars == <<val, mwPc, request, token, authPayload, result, response>>

eventVars == <<listeners, subscriptions, emitted, invoked>>

vars == <<now, JWT_SECRET, challengeVars, requestVars, fn, eventVars>>

----------------------------------------------------------------------------
(* Bounds of the model *)

TicksPerSec == 2
ChallengeExpirySecs == 1
TokenExpirySecs == 2
MaxTime == 5
MaxNonces == 2
MaxCount == 2
MaxBalance == 3
MaxAmount == 2

(* Program constants *)

HexLen == 40

----------------------------------------------------------------------------
(* Strings *)

Null == <<>>

HexChars == {"0", "1", "2", "3", "4", "5", "6", "7", "8", "9",
             "a", "b", "c", "d", "e", "f", "A", "B", "C", "D", "E", "F"}

\* "0x" followed by n copies of the character c
Addr(c, n) == <<"0", "x">> \o [i \in 1..n |-> c]

WalletA == Addr("a", HexLen)
WalletB == Addr("B", HexLen)
\* the address recovered from a signature made over another message: nobody's
StrangerAddress == Addr("7", HexLen)

\* !walletAddress || !walletAddress.match(/^0x[a-fA-F0-9]{40}$/), negated
IsHexAddress(s) ==
    /\ Len(s) = 2 + HexLen
    /\ s[1] = "0"
    /\ s[2] = "x"
    /\ \A i \in 3..Len(s) : s[i] \in HexChars

Min(a, b) == IF a < b THEN a ELSE b

\* Math.floor(Date.now() / 1000)
NowSec == now \div TicksPerSec

\* the clock starts at second 1 and the model follows it for MaxTime ticks
StartTime == TicksPerSec
EndTime == StartTime + MaxTime

----------------------------------------------------------------------------
(* auth: the challenge store *)

Nonces == 1..MaxNonces
Callers == {"c1", "c2"}
Signers == {WalletA}

\* `Sign this message to authenticate with EVMAuth: ${nonce}`
ChallengeMessage(nonce) == [text |-> "Sign this message to authenticate with EVMAuth: ",
                            nonce |-> nonce]
OtherMessage == [text |-> "some other message", nonce |-> 0]

\* what a caller can send as a signature: garbage, or a wallet's signature over a message
MalformedSignature == [wellFormed |-> FALSE, signer |-> Null, message |-> OtherMessage]
Signatures(nonce) ==
    {MalformedSignature} \cup
    [wellFormed : {TRUE}, signer : Signers,
     message : {ChallengeMessage(nonce), OtherMessage}]

\* ethers.verifyMessage: throws on a malformed signature, else recovers an address,
\* the signer's when the signature is over this message
verifyMessageThrows(message, signature) == ~signature.wellFormed
verifyMessage(message, signature) ==
    IF signature.message = message THEN signature.signer ELSE StrangerAddress

Stored(nonce) == nonce \in DOMAIN CHALLENGE_STORE

\* stored.expiresAt < Math.floor(Date.now() / 1000)
ChallengeExpired(stored) == stored.expiresAt < NowSec

\* a delete that removes nothing
StoreWithoutNothing(store, nonce) == store

\* delete CHALLENGE_STORE[nonce]
StoreWithout(store, nonce) == [k \in (DOMAIN store) \ {nonce} |-> store[k]]

\* the value verifySignature returns
verifySignatureResult(nonce, signature) ==
    IF ~Stored(nonce) THEN Null
    ELSE IF ChallengeExpired(CHALLENGE_STORE[nonce]) THEN Null
    ELSE IF verifyMessageThrows(CHALLENGE_STORE[nonce].challenge, signature) THEN Null
    ELSE verifyMessage(CHALLENGE_STORE[nonce].challenge, signature)

\* a verifySignature that forgets its clean-up
verifySignatureStoreKept(nonce, signature) == CHALLENGE_STORE

\* the store verifySignature leaves
verifySignatureStore(nonce, signature) ==
    IF ~Stored(nonce) THEN CHALLENGE_STORE
    ELSE IF ChallengeExpired(CHALLENGE_STORE[nonce]) THEN CHALLENGE_STORE
    ELSE IF verifyMessageThrows(CHALLENGE_STORE[nonce].challenge, signature)
         THEN CHALLENGE_STORE
    ELSE StoreWithout(CHALLENGE_STORE, nonce)

\* no verifySignature call has just returned
NoVerify == [called |-> FALSE, nonce |-> 0, signature |-> MalformedSignature,
             nowSec |-> 0, generated |-> FALSE, expiresAt |-> 0, priorCall |-> FALSE,
             priorSuccesses |-> 0, result |-> Null]

\* what a verifySignature call is observed to do: its arguments, the time, what was
\* known of the nonce before the call, and the value returned; the observation lasts
\* until the next step
Observation(nonce, signature) ==
    [called |-> TRUE,
     nonce |-> nonce,
     signature |-> signature,
     nowSec |-> NowSec,
     generated |-> nonce < nextNonce,
     expiresAt |-> histExpiresAt[nonce],
     priorCall |-> histCalled[nonce],
     priorSuccesses |-> histSuccesses[nonce],
     result |-> verifySignatureResult(nonce, signature)]

Count(nonce, signature) ==
    /\ histCalled' = [histCalled EXCEPT ![nonce] = @ \/ nonce < nextNonce]
    /\ histSuccesses' = [histSuccesses EXCEPT
                           ![nonce] = IF verifySignatureResult(nonce, signature) # Null
                                      THEN Min(@ + 1, MaxCount) ELSE @]

\* generateChallenge()
generateChallenge ==
    /\ nextNonce <= MaxNonces
    /\ CHALLENGE_STORE' =
         [k \in (DOMAIN CHALLENGE_STORE) \cup {nextNonce} |->
            IF k = nextNonce
            THEN [challenge |-> ChallengeMessage(nextNonce),
                  expiresAt |-> NowSec + ChallengeExpirySecs]
            ELSE CHALLENGE_STORE[k]]
    /\ timers' = timers \cup {[nonce |-> nextNonce,
                               due |-> now + ChallengeExpirySecs * TicksPerSec]}
    /\ histExpiresAt' = [histExpiresAt EXCEPT ![nextNonce] = NowSec + ChallengeExpirySecs]
    /\ nextNonce' = nextNonce + 1
    /\ lastVerify' = NoVerify
    /\ UNCHANGED <<requestVars, now, JWT_SECRET, fn, eventVars, callerPc, callerCall, callerResult, issued,
                   histCalled, histSuccesses>>

\* the callback generateChallenge gave to setTimeout; a timer never fires early
cleanup(t) ==
    /\ t \in timers
    /\ now >= t.due
    /\ timers' = timers \ {t}
    /\ CHALLENGE_STORE' = StoreWithout(CHALLENGE_STORE, t.nonce)
    /\ lastVerify' = NoVerify
    /\ UNCHANGED <<requestVars, now, JWT_SECRET, fn, eventVars, nextNonce, callerPc, callerCall, callerResult,
                   issued, histExpiresAt, histCalled, histSuccesses>>

\* verifySignature(nonce, signature), called on its own
verifySignature(nonce, signature) ==
    /\ CHALLENGE_STORE' = verifySignatureStore(nonce, signature)
    /\ lastVerify' = Observation(nonce, signature)
    /\ Count(nonce, signature)
    /\ UNCHANGED <<requestVars, now, JWT_SECRET, fn, eventVars, timers, nextNonce, callerPc, callerCall,
                   callerResult, issued, histExpiresAt>>

\* time passes
Tick ==
    /\ now < EndTime
    /\ now' = now + 1
    /\ lastVerify' = NoVerify
    /\ UNCHANGED <<JWT_SECRET, fn, eventVars, CHALLENGE_STORE, timers, nextNonce, callerPc, callerCall,
                   callerResult, issued, histExpiresAt, histCalled, histSuccesses,
                   requestVars>>

----------------------------------------------------------------------------
(* jwt-utils: issuing a session token *)

NoPayload == [walletAddress |-> Null, issuedAt |-> 0, expiresAt |-> 0, nonce |-> 0]
\* a token string: "" (form "empty"), a string that is no JWT ("garbage"), or a JWT
NoToken == [form |-> "empty", payload |-> NoPayload, iat |-> 0, exp |-> 0, key |-> ""]

\* a createAuthToken that does not look at the address
createAuthTokenThrowsOnKeyOnly(walletAddress) ==
    JWT_SECRET = ""

\* createAuthToken throws: bad address format, or getEncryptionKey finds no secret
createAuthTokenThrows(walletAddress) ==
    \/ ~IsHexAddress(walletAddress)
    \/ JWT_SECRET = ""

\* the payload createAuthToken builds; expirySeconds = 0 stands for "not given"
AuthTokenPayload(walletAddress, nonce, expirySeconds) ==
    [walletAddress |-> walletAddress,
     issuedAt |-> NowSec,
     expiresAt |-> NowSec + (IF expirySeconds # 0 THEN expirySeconds ELSE TokenExpirySecs),
     nonce |-> nonce]

\* a jwtVerify that does not look at exp
jwtVerifyIgnoresExpiry(tok) ==
    \/ tok.form # "jwt"
    \/ tok.key # JWT_SECRET

\* jose's jwtVerify throws: not a JWT, signed with another key, or exp not in the future
jwtVerifyThrows(tok) ==
    \/ tok.form # "jwt"
    \/ tok.key # JWT_SECRET
    \/ tok.exp <= NowSec

\* verifyAuthToken(token): the payload, or NoPayload for null
verifyAuthToken(tok) ==
    IF JWT_SECRET = "" THEN NoPayload
    ELSE IF jwtVerifyThrows(tok) THEN NoPayload
    ELSE IF tok.payload.walletAddress = Null \/ tok.payload.issuedAt = 0
            \/ tok.payload.expiresAt = 0
    THEN NoPayload
    ELSE tok.payload

\* new SignJWT(payload).setIssuedAt(issuedAt).setExpirationTime(expiresAt).sign(secret)
SignJWT(payload) ==
    [form |-> "jwt", payload |-> payload, iat |-> payload.issuedAt,
     exp |-> payload.expiresAt, key |-> JWT_SECRET]

----------------------------------------------------------------------------
(* auth: authenticateUser *)

NoCall == [nonce |-> 0, signature |-> MalformedSignature, walletAddress |-> Null,
           payload |-> NoPayload]
NoResult == [returned |-> FALSE, success |-> FALSE, errorCode |-> "",
             walletAddress |-> Null, token |-> NoToken]

\* authenticateUser(nonce, signature) up to its await: verifySignature, then the
\* synchronous part of createAuthToken
authenticateUser(c, nonce, signature) ==
    /\ callerPc[c] = "idle"
    /\ CHALLENGE_STORE' = verifySignatureStore(nonce, signature)
    /\ Count(nonce, signature)
    /\ LET walletAddress == verifySignatureResult(nonce, signature) IN
         /\ callerCall' = [callerCall EXCEPT ![c] =
                [nonce |-> nonce, signature |-> signature,
                 walletAddress |-> walletAddress,
                 payload |-> IF walletAddress = Null \/ createAuthTokenThrows(walletAddress)
                             THEN NoPayload
                             ELSE AuthTokenPayload(walletAddress, nonce, 0)]]
         /\ IF walletAddress = Null
            THEN /\ callerResult' = [callerResult EXCEPT ![c] =
                        [returned |-> TRUE, success |-> FALSE, errorCode |-> "AUTH_INVALID",
                         walletAddress |-> Null, token |-> NoToken]]
                 /\ callerPc' = [callerPc EXCEPT ![c] = "returned"]
            ELSE IF createAuthTokenThrows(walletAddress)
            THEN /\ callerResult' = [callerResult EXCEPT ![c] =
                        [returned |-> TRUE, success |-> FALSE, errorCode |-> "SERVER_ERROR",
                         walletAddress |-> Null, token |-> NoToken]]
                 /\ callerPc' = [callerPc EXCEPT ![c] = "returned"]
            ELSE /\ UNCHANGED callerResult
                 /\ callerPc' = [callerPc EXCEPT ![c] = "signing"]
    /\ UNCHANGED <<requestVars, now, JWT_SECRET, fn, eventVars, timers, nextNonce, issued, lastVerify, histExpiresAt>>

\* authenticateUser after its await: the token is signed and returned
authenticateUserSigned(c) ==
    /\ callerPc[c] = "signing"
    /\ issued' = issued \cup {SignJWT(callerCall[c].payload)}
    /\ callerResult' = [callerResult EXCEPT ![c] =
            [returned |-> TRUE, success |-> TRUE, errorCode |-> "",
             walletAddress |-> callerCall[c].walletAddress,
             token |-> SignJWT(callerCall[c].payload)]]
    /\ callerPc' = [callerPc EXCEPT ![c] = "returned"]
    /\ UNCHANGED <<requestVars, now, JWT_SECRET, fn, eventVars, CHALLENGE_STORE, timers, nextNonce, callerCall,
                   lastVerify, histExpiresAt, histCalled, histSuccesses>>

----------------------------------------------------------------------------
(* config: paths and token requirements.  A path "/a/b" is the sequence of its  *)
(* segments <<"a", "b">>; "/" is <<"">>.                                        *)

PROTECTED_PATH_PREFIXES == {<<"protected">>, <<"api", "protected">>}
AUTH_PATHS == {<<"api", "auth">>, <<"login">>, <<"token-required">>}
STATIC_PATHS == {<<"_next">>, <<"favicon.ico">>, <<"api", "health">>}

\* the keys of TOKEN_REQUIREMENTS other than "default"
RequirementPaths == {<<"protected">>, <<"api", "protected">>,
                     <<"protected", "premium">>, <<"api", "protected", "premium">>}
TOKEN_REQUIREMENTS(key) ==
    IF key \in {<<"protected", "premium">>, <<"api", "protected", "premium">>}
    THEN [tokenId |-> 1, amount |-> 1]
    ELSE [tokenId |-> 0, amount |-> 1]
DefaultRequirement == [tokenId |-> 0, amount |-> 1]

\* pathname.startsWith(`${prefix}/`)
StartsWithSlash(pathname, prefix) ==
    /\ Len(pathname) > Len(prefix)
    /\ SubSeq(pathname, 1, Len(prefix)) = prefix

\* pathname === prefix || pathname.startsWith(`${prefix}/`)
PathUnder(pathname, prefix) == pathname = prefix \/ StartsWithSlash(pathname, prefix)

isProtectedPath(pathname) == \E prefix \in PROTECTED_PATH_PREFIXES : PathUnder(pathname, prefix)
isAuthPath(pathname) == \E path \in AUTH_PATHS : PathUnder(pathname, path)
isStaticPath(pathname) == \E path \in STATIC_PATHS : PathUnder(pathname, path)

\* prefix.length, in characters
PrefixLength(prefix) == IF prefix = <<"protected">> THEN 10 ELSE 14

\* a resolver that does not look for an exact match first
getTokenRequirementByPrefix(pathname) ==
    LET matchingPrefixes ==
            {prefix \in PROTECTED_PATH_PREFIXES : StartsWithSlash(pathname, prefix)}
    IN IF matchingPrefixes # {}
       THEN TOKEN_REQUIREMENTS(
                CHOOSE prefix \in matchingPrefixes :
                    \A other \in matchingPrefixes :
                        PrefixLength(other) <= PrefixLength(prefix))
       ELSE DefaultRequirement

\* getTokenRequirementForPath: exact match, else the longest protected prefix, else default
getTokenRequirementForPath(pathname) ==
    IF pathname \in RequirementPaths THEN TOKEN_REQUIREMENTS(pathname)
    ELSE LET matchingPrefixes ==
                 {prefix \in PROTECTED_PATH_PREFIXES : StartsWithSlash(pathname, prefix)}
         IN IF matchingPrefixes # {}
            THEN TOKEN_REQUIREMENTS(
                     CHOOSE prefix \in matchingPrefixes :
                         \A other \in matchingPrefixes :
                             PrefixLength(other) <= PrefixLength(prefix))
            ELSE DefaultRequirement

----------------------------------------------------------------------------
(* blockchain, token-validator: validating a token requirement *)

\* ENV.DEMO_WALLET_ADDRESS, configured
DEMO_WALLET_ADDRESS == Addr("d", HexLen)

\* what getTokenBalance can come to: a balance, or a throw (network or contract error)
LedgerFailure == 0 - 1
LedgerOutcomes == {LedgerFailure} \cup (0..MaxBalance)

\* a message of the validator, with the numbers it interpolates
Message(text, a, b, c) == [text |-> text, args |-> <<a, b, c>>]
NoMessage == Message("", 0, 0, 0)

\* TokenValidationResult; errorCode "" and hasBalance FALSE stand for fields not set
ValidationResult(isValid, walletAddress, tokenId, requiredAmount, hasBalance, actualBalance, errorCode, message, retryable) ==
    [isValid |-> isValid, walletAddress |-> walletAddress, tokenId |-> tokenId,
     requiredAmount |-> requiredAmount, hasBalance |-> hasBalance,
     actualBalance |-> actualBalance, errorCode |-> errorCode, message |-> message,
     hasRetryable |-> errorCode # "", retryable |-> retryable]
NoValidation == ValidationResult(FALSE, Null, 0, 0, FALSE, 0, "", NoMessage, FALSE)

\* the two places that answer 'Invalid wallet address format'
InvalidAddressResult(walletAddress, tokenId, requiredAmount) ==
    ValidationResult(FALSE, walletAddress, tokenId, requiredAmount, FALSE, 0,
                     "AUTH_INVALID", Message("Invalid wallet address format", 0, 0, 0), TRUE)

\* a catch block that reports the failure as an empty balance
BlockchainErrorAsMissing(walletAddress, tokenId, requiredAmount) ==
    ValidationResult(FALSE, walletAddress, tokenId, requiredAmount, TRUE, 0,
                     "TOKEN_MISSING", NoMessage, TRUE)

\* validateTokenRequirement: both catch blocks
BlockchainErrorResult(walletAddress, tokenId, requiredAmount) ==
    ValidationResult(FALSE, walletAddress, tokenId, requiredAmount, FALSE, 0,
                     "CONTRACT_ERROR",
                     Message("Error connecting to blockchain. Please try again later.",
                             0, 0, 0), TRUE)

\* a classification that asks for more than the required amount
BalanceResultStrict(walletAddress, tokenId, requiredAmount, balance) ==
    IF balance > requiredAmount
    THEN ValidationResult(TRUE, walletAddress, tokenId, requiredAmount, TRUE, balance,
                          "", NoMessage, FALSE)
    ELSE ValidationResult(FALSE, walletAddress, tokenId, requiredAmount, TRUE, balance,
                          IF balance = 0 THEN "TOKEN_MISSING" ELSE "TOKEN_INSUFFICIENT",
                          NoMessage, TRUE)

\* validateTokenRequirement, given a balance
BalanceResult(walletAddress, tokenId, requiredAmount, balance) ==
    IF balance >= requiredAmount
    THEN ValidationResult(TRUE, walletAddress, tokenId, requiredAmount, TRUE, balance,
                          "", NoMessage, FALSE)
    ELSE IF balance = 0
    THEN ValidationResult(FALSE, walletAddress, tokenId, requiredAmount, TRUE, balance,
                          "TOKEN_MISSING",
                          Message("You need at least %1 of token #%2 to access this resource",
                                  requiredAmount, tokenId, 0), TRUE)
    ELSE ValidationResult(FALSE, walletAddress, tokenId, requiredAmount, TRUE, balance,
                          "TOKEN_INSUFFICIENT",
                          Message("You need at least %1 of token #%2, but you only have %3",
                                  requiredAmount, tokenId, balance), TRUE)

\* validateTokenRequirement(walletAddress, tokenId, requiredAmount), given what
\* getTokenBalance comes to
validateTokenRequirement(walletAddress, tokenId, requiredAmount, outcome) ==
    IF ~IsHexAddress(walletAddress)
    THEN InvalidAddressResult(walletAddress, tokenId, requiredAmount)
    ELSE IF outcome = LedgerFailure
    THEN BlockchainErrorResult(walletAddress, tokenId, requiredAmount)
    ELSE BalanceResult(walletAddress, tokenId, requiredAmount, outcome)

\* validateToken: its catch block
ValidationErrorResult(walletAddress, tokenId, requiredAmount) ==
    ValidationResult(FALSE, walletAddress, tokenId, requiredAmount, FALSE, 0,
                     "CONTRACT_ERROR",
                     Message("Error validating token requirement", 0, 0, 0), TRUE)

\* validateToken: the demo wallet passed demoWalletHasRequiredTokens
DemoWalletResult(walletAddress, tokenId, requiredAmount) ==
    ValidationResult(TRUE, walletAddress, tokenId, requiredAmount, TRUE, 1,
                     "", NoMessage, FALSE)

NoVal == [pc |-> "idle", walletAddress |-> Null, tokenId |-> 0, amount |-> 0,
          ledger |-> <<>>, result |-> NoValidation]

\* a validateToken that goes to the ledger without looking at the address
validateTokenCalledUnchecked(walletAddress, tokenRequirement) ==
    [pc |-> IF walletAddress = DEMO_WALLET_ADDRESS THEN "demoQuery" ELSE "ledgerQuery",
     walletAddress |-> walletAddress,
     tokenId |-> tokenRequirement.tokenId, amount |-> tokenRequirement.amount,
     ledger |-> <<>>, result |-> NoValidation]

\* validateToken(walletAddress, tokenRequirement) up to its first await
validateTokenCalled(walletAddress, tokenRequirement) ==
    IF ~IsHexAddress(walletAddress)
    THEN [pc |-> "returned", walletAddress |-> walletAddress,
          tokenId |-> tokenRequirement.tokenId, amount |-> tokenRequirement.amount,
          ledger |-> <<>>,
          result |-> InvalidAddressResult(walletAddress, tokenRequirement.tokenId,
                                          tokenRequirement.amount)]
    ELSE [pc |-> IF walletAddress = DEMO_WALLET_ADDRESS THEN "demoQuery" ELSE "ledgerQuery",
          walletAddress |-> walletAddress,
          tokenId |-> tokenRequirement.tokenId, amount |-> tokenRequirement.amount,
          ledger |-> <<>>, result |-> NoValidation]

\* validateToken after `await demoWalletHasRequiredTokens(...)`: the demo wallet's
\* configuration is validated (it throws when the private key is not configured),
\* then its balance is read
validateTokenDemoChecked(v, demoKeyConfigured, outcome) ==
    IF ~demoKeyConfigured \/ outcome = LedgerFailure
    THEN [v EXCEPT !.pc = "returned",
                   !.ledger = IF demoKeyConfigured THEN Append(@, outcome) ELSE @,
                   !.result = ValidationErrorResult(v.walletAddress, v.tokenId, v.amount)]
    ELSE IF outcome >= v.amount
    THEN [v EXCEPT !.pc = "returned",
                   !.ledger = Append(@, outcome),
                   !.result = DemoWalletResult(v.walletAddress, v.tokenId, v.amount)]
    ELSE [v EXCEPT !.pc = "ledgerQuery", !.ledger = Append(@, outcome)]

\* validateToken after `await validateTokenRequirement(...)`
validateTokenChecked(v, outcome) ==
    [v EXCEPT !.pc = "returned",
              !.ledger = Append(@, outcome),
              !.result = validateTokenRequirement(v.walletAddress, v.tokenId, v.amount,
                                                  outcome)]

\* the demo wallet's balance query settles
demoQuerySettles(demoKeyConfigured, outcome) ==
    /\ val.pc = "demoQuery"
    /\ val' = validateTokenDemoChecked(val, demoKeyConfigured, outcome)
    /\ UNCHANGED <<now, JWT_SECRET, fn, eventVars, challengeVars, mwPc, request, token, authPayload,
                   result, response>>

\* the balance query of validateTokenRequirement settles
ledgerQuerySettles(outcome) ==
    /\ val.pc = "ledgerQuery"
    /\ val' = validateTokenChecked(val, outcome)
    /\ UNCHANGED <<now, JWT_SECRET, fn, eventVars, challengeVars, mwPc, request, token, authPayload,
                   result, response>>

\* what a caller can pass as a wallet address
WalletInputs == {WalletA, WalletB, DEMO_WALLET_ADDRESS, Null, Addr("a", HexLen - 1),
                 Addr("g", HexLen), <<"a", "x">> \o [i \in 1..HexLen |-> "a"]}
RequirementInputs == [tokenId : {0, 1}, amount : 1..MaxAmount]

\* validateToken called on its own
validateToken(walletAddress, tokenRequirement) ==
    /\ mwPc = "idle"
    /\ val.pc \in {"idle", "returned"}
    /\ val' = validateTokenCalled(walletAddress, tokenRequirement)
    /\ UNCHANGED <<now, JWT_SECRET, fn, eventVars, challengeVars, mwPc, request, token, authPayload,
                   result, response>>

----------------------------------------------------------------------------
(* error-utils, response-utils: responses *)

ErrorKinds == {"AUTH_MISSING", "AUTH_INVALID", "TOKEN_MISSING", "TOKEN_INSUFFICIENT",
               "TOKEN_EXPIRED", "CONTRACT_ERROR", "SERVER_ERROR", "INVALID_REQUEST"}
\* a switch that has no case for TOKEN_EXPIRED
TokenKindsWithoutExpired == {"TOKEN_MISSING", "TOKEN_INSUFFICIENT"}

\* the codes of the token case of the switch
TokenKinds == {"TOKEN_MISSING", "TOKEN_INSUFFICIENT", "TOKEN_EXPIRED"}

\* the table ERROR_CODES
ERROR_CODES(errorCode) ==
    CASE errorCode = "AUTH_MISSING" ->
           [code |-> "AUTH_MISSING", message |-> "Authentication required",
            status |-> 401, retryable |-> TRUE]
      [] errorCode = "AUTH_INVALID" ->
           [code |-> "AUTH_INVALID", message |-> "Invalid or expired authentication",
            status |-> 401, retryable |-> TRUE]
      [] errorCode = "TOKEN_MISSING" ->
           [code |-> "TOKEN_MISSING", message |-> "Required token not found",
            status |-> 403, retryable |-> TRUE]
      [] errorCode = "TOKEN_INSUFFICIENT" ->
           [code |-> "TOKEN_INSUFFICIENT", message |-> "Insufficient token balance",
            status |-> 403, retryable |-> TRUE]
      [] errorCode = "TOKEN_EXPIRED" ->
           [code |-> "TOKEN_EXPIRED", message |-> "Token has expired",
            status |-> 403, retryable |-> TRUE]
      [] errorCode = "CONTRACT_ERROR" ->
           [code |-> "CONTRACT_ERROR", message |-> "Error communicating with blockchain",
            status |-> 500, retryable |-> TRUE]
      [] errorCode = "SERVER_ERROR" ->
           [code |-> "SERVER_ERROR", message |-> "Unexpected server error",
            status |-> 500, retryable |-> FALSE]
      [] errorCode = "INVALID_REQUEST" ->
           [code |-> "INVALID_REQUEST", message |-> "Invalid request parameters",
            status |-> 400, retryable |-> TRUE]

\* getTokenAcquisitionSteps(tokenId, errorCode): the actions of the steps, in order
getTokenAcquisitionSteps(tokenId, errorCode) ==
    CASE errorCode = "TOKEN_EXPIRED" -> <<"authenticate", "renew">>
      [] errorCode = "TOKEN_INSUFFICIENT" -> <<"authenticate", "upgrade">>
      [] OTHER -> <<"authenticate", "purchase">>

NoBody == [code |-> "", message |-> NoMessage, retryable |-> FALSE,
           hasResolution |-> FALSE, steps |-> <<>>]
NoLocation == [page |-> "", hasTokenId |-> FALSE, tokenId |-> 0, error |-> "", code |-> "",
               hasMessage |-> FALSE, message |-> NoMessage,
               hasReturnUrl |-> FALSE, returnUrl |-> <<>>]
NoResponse == [kind |-> "none", status |-> 0, body |-> NoBody, location |-> NoLocation,
               walletHeader |-> Null]

\* options.message || errorDetails.message
MessageOr(message, default) == IF message.text # "" THEN message ELSE Message(default, 0, 0, 0)

\* createErrorResponse(errorCode, {message, tokenId}): the body
createErrorResponse(errorCode, message, tokenId) ==
    [code |-> ERROR_CODES(errorCode).code,
     message |-> MessageOr(message, ERROR_CODES(errorCode).message),
     retryable |-> ERROR_CODES(errorCode).retryable,
     hasResolution |-> errorCode \in TokenKinds,
     steps |-> IF errorCode \in TokenKinds
               THEN getTokenAcquisitionSteps(tokenId, errorCode) ELSE <<>>]

\* createApiErrorResponse(errorCode, {pathname, message}); it throws when errorCode
\* is no key of ERROR_CODES
createApiErrorResponseThrows(errorCode) == errorCode \notin ErrorKinds
createApiErrorResponse(errorCode, pathname, message) ==
    [NoResponse EXCEPT
        !.kind = "json",
        !.status = 401,
        !.body = createErrorResponse(errorCode, message,
                                     getTokenRequirementForPath(pathname).tokenId)]

\* createPageErrorRedirect(errorCode, {pathname, message})
createPageErrorRedirect(errorCode, pathname, message) ==
    [NoResponse EXCEPT
        !.kind = "redirect",
        !.status = 307,
        !.location =
            IF errorCode \in {"AUTH_MISSING", "AUTH_INVALID"}
            THEN [NoLocation EXCEPT !.page = "/login",
                                    !.hasReturnUrl = TRUE, !.returnUrl = pathname]
            ELSE IF errorCode \in TokenKinds
            THEN [NoLocation EXCEPT !.page = "/token-required",
                                    !.hasTokenId = TRUE,
                                    !.tokenId = getTokenRequirementForPath(pathname).tokenId,
                                    !.error = errorCode,
                                    !.hasMessage = message.text # "",
                                    !.message = message,
                                    !.hasReturnUrl = TRUE, !.returnUrl = pathname]
            ELSE [NoLocation EXCEPT !.page = "/error",
                                    !.code = errorCode,
                                    !.hasMessage = message.text # "",
                                    !.message = message,
                                    !.hasReturnUrl = TRUE, !.returnUrl = pathname]]

\* NextResponse.next(), with x-wallet-address set when there is a wallet address
NextResponse(walletAddress) ==
    [NoResponse EXCEPT !.kind = "next", !.status = 200, !.walletHeader = walletAddress]

\* NextResponse.redirect(new URL('/error?code=SERVER_ERROR', request.url))
ServerErrorRedirect ==
    [NoResponse EXCEPT !.kind = "redirect", !.status = 307,
                       !.location = [NoLocation EXCEPT !.page = "/error",
                                                       !.code = "SERVER_ERROR"]]

\* NextResponse.redirect(new URL('/login', req.url))
LoginRedirect ==
    [NoResponse EXCEPT !.kind = "redirect", !.status = 307,
                       !.location = [NoLocation EXCEPT !.page = "/login"]]

----------------------------------------------------------------------------
(* jwt-utils: extracting the token from a request *)

\* extractAuthToken(req): [threw, token]; token NoToken for null.  Headers.get
\* returns a value without surrounding whitespace, so a Bearer header with no token
\* reads "Bearer", which does not start with "Bearer "
extractAuthToken(req) ==
    IF req.authorization.scheme = "Bearer" /\ req.authorization.token.form # "empty"
    THEN [threw |-> FALSE, token |-> req.authorization.token]
    ELSE IF req.cookie.kind = "undecodable"
    THEN [threw |-> TRUE, token |-> NoToken]
    ELSE IF req.cookie.kind = "evmauth_token" /\ req.cookie.token.form # "empty"
    THEN [threw |-> FALSE, token |-> req.cookie.token]
    ELSE IF req.xAuthToken.present /\ req.xAuthToken.token.form # "empty"
    THEN [threw |-> FALSE, token |-> req.xAuthToken.token]
    ELSE [threw |-> FALSE, token |-> NoToken]

----------------------------------------------------------------------------
(* middleware-helpers, middleware *)

\* bigint.toString(): the decimal digits
Digit(d) == CASE d = 0 -> "0" [] d = 1 -> "1" [] d = 2 -> "2" [] d = 3 -> "3"
              [] d = 4 -> "4" [] d = 5 -> "5" [] d = 6 -> "6" [] d = 7 -> "7"
              [] d = 8 -> "8" [] d = 9 -> "9"
RECURSIVE toString(_)
toString(n) == IF n < 10 THEN <<Digit(n)>> ELSE Append(toString(n \div 10), Digit(n % 10))

\* createMiddlewareContext(req)
createMiddlewareContext(req) ==
    [pathname |-> req.pathname,
     isApiRoute |-> Len(req.pathname) >= 2 /\ req.pathname[1] = "api",
     isProtectedPath |-> isProtectedPath(req.pathname),
     hasTokenRequirement |-> isProtectedPath(req.pathname),
     tokenRequirement |-> IF isProtectedPath(req.pathname)
                          THEN getTokenRequirementForPath(req.pathname)
                          ELSE [tokenId |-> 0, amount |-> 0]]

\* a middleware that excludes no path
shouldExcludeNothing(pathname) == FALSE

\* shouldExcludePath(pathname)
shouldExcludePath(pathname) == isStaticPath(pathname) \/ isAuthPath(pathname)

NoDetails == [tokenId |-> 0, requiredAmount |-> 0, actualBalance |-> Null]
NoError == [code |-> "", message |-> NoMessage, status |-> 0, retryable |-> FALSE,
            hasDetails |-> FALSE, details |-> NoDetails]
\* MiddlewareResult; response NoResponse stands for no response
NoMiddlewareResult == [returned |-> FALSE, isAuthenticated |-> FALSE,
                       walletAddress |-> Null, hasError |-> FALSE, error |-> NoError,
                       response |-> NoResponse]

\* the error response of processAuth, by route type
ErrorResponseFor(context, errorCode, message) ==
    IF context.isApiRoute
    THEN createApiErrorResponse(errorCode, context.pathname, message)
    ELSE createPageErrorRedirect(errorCode, context.pathname, message)

\* a processAuth that turns unprotected paths away
SkippedUnauthenticated == [NoMiddlewareResult EXCEPT !.returned = TRUE]

\* processAuth: the path is not protected
SkippedResult ==
    [NoMiddlewareResult EXCEPT !.returned = TRUE, !.isAuthenticated = TRUE]

\* an unauthenticated result that always says the token is missing
UnauthenticatedAlwaysMissing(context, errorCode, message) ==
    [NoMiddlewareResult EXCEPT
        !.returned = TRUE,
        !.hasError = TRUE,
        !.error = [NoError EXCEPT !.code = "AUTH_MISSING",
                                  !.message = Message("Authentication required", 0, 0, 0),
                                  !.status = 401,
                                  !.retryable = TRUE],
        !.response = ErrorResponseFor(context, "AUTH_MISSING", NoMessage)]

\* processAuth: no token, or an invalid one
UnauthenticatedResult(context, errorCode, message) ==
    [NoMiddlewareResult EXCEPT
        !.returned = TRUE,
        !.hasError = TRUE,
        !.error = [NoError EXCEPT !.code = errorCode,
                                  !.message = Message(message, 0, 0, 0),
                                  !.status = 401,
                                  !.retryable = TRUE],
        !.response = ErrorResponseFor(context, errorCode, NoMessage)]

\* an unauthorized result that reports every failure as a missing token
UnauthorizedAsTokenMissing(context, walletAddress, validationResult) ==
    [NoMiddlewareResult EXCEPT
        !.returned = TRUE,
        !.walletAddress = walletAddress,
        !.hasError = TRUE,
        !.error = [NoError EXCEPT !.code = "TOKEN_MISSING",
                                  !.message = Message("Token validation failed", 0, 0, 0),
                                  !.status = 403,
                                  !.retryable = TRUE],
        !.response = ErrorResponseFor(context, "TOKEN_MISSING", NoMessage)]

\* processAuth: the validator said no
UnauthorizedResult(context, walletAddress, validationResult) ==
    [NoMiddlewareResult EXCEPT
        !.returned = TRUE,
        !.walletAddress = walletAddress,
        !.hasError = TRUE,
        !.error = [code |-> IF validationResult.errorCode # ""
                            THEN validationResult.errorCode ELSE "TOKEN_MISSING",
                   message |-> MessageOr(validationResult.message, "Token validation failed"),
                   status |-> 403,
                   retryable |-> IF validationResult.hasRetryable
                                 THEN validationResult.retryable ELSE TRUE,
                   hasDetails |-> TRUE,
                   details |-> [tokenId |-> validationResult.tokenId,
                                requiredAmount |-> validationResult.requiredAmount,
                                actualBalance |-> IF validationResult.hasBalance
                                                  THEN toString(validationResult.actualBalance)
                                                  ELSE Null]],
        !.response = ErrorResponseFor(context, validationResult.errorCode,
                                      validationResult.message)]

\* a success result that forgets the wallet address
AuthenticatedWithoutWallet(walletAddress) ==
    [NoMiddlewareResult EXCEPT !.returned = TRUE, !.isAuthenticated = TRUE]

\* processAuth: authentication and token validation passed
AuthenticatedResult(walletAddress) ==
    [NoMiddlewareResult EXCEPT !.returned = TRUE, !.isAuthenticated = TRUE,
                               !.walletAddress = walletAddress]

\* a processAuth that does not look at the validator's verdict
ValidatedResultUnchecked(context, walletAddress, validationResult) ==
    AuthenticatedResult(walletAddress)

\* processAuth after validateToken returned
ValidatedResult(context, walletAddress, validationResult) ==
    IF ~validationResult.isValid
    THEN UnauthorizedResult(context, walletAddress, validationResult)
    ELSE AuthenticatedResult(walletAddress)

\* createMiddlewareResponse(result, req)
createMiddlewareResponse(res) ==
    IF res.response.kind # "none" THEN res.response
    ELSE IF res.isAuthenticated THEN NextResponse(res.walletAddress)
    ELSE LoginRedirect

\* a catch block that throws the exception again
middlewareRethrow == [pc |-> "raised", response |-> NoResponse]

\* the catch block of middleware: where the call ends, and with what response
middlewareCatch == [pc |-> "caught", response |-> ServerErrorRedirect]

\* what a request can bring
StartSec == StartTime \div TicksPerSec
\* a token createAuthToken signed for the wallet at the start of the clock
SessionTokenOf(walletAddress) ==
    [form |-> "jwt",
     payload |-> [walletAddress |-> walletAddress, issuedAt |-> StartSec,
                  expiresAt |-> StartSec + TokenExpirySecs, nonce |-> 1],
     iat |-> StartSec, exp |-> StartSec + TokenExpirySecs, key |-> "server-secret"]
\* a token with the same claims signed with a key that is not the server's
ForgedToken == [SessionTokenOf(WalletA) EXCEPT !.key = "attacker-secret"]
GarbageToken == [NoToken EXCEPT !.form = "garbage"]

Pathnames == {<<"">>, <<"login">>, <<"api", "auth", "challenge">>, <<"_next", "static">>,
              <<"api", "public">>, <<"protectedx">>,
              <<"protected">>, <<"protected", "premium">>, <<"protected", "premium", "x">>,
              <<"api", "protected">>, <<"api", "protected", "premium">>,
              <<"api", "protected", "x">>}
AuthorizationHeaders ==
    {[scheme |-> "none", token |-> NoToken], [scheme |-> "Basic", token |-> GarbageToken],
     [scheme |-> "Bearer", token |-> NoToken],
     [scheme |-> "Bearer", token |-> SessionTokenOf(WalletA)],
     [scheme |-> "Bearer", token |-> ForgedToken]}
CookieHeaders ==
    {[kind |-> "none", token |-> NoToken], [kind |-> "other", token |-> NoToken],
     [kind |-> "undecodable", token |-> NoToken],
     [kind |-> "evmauth_token", token |-> NoToken],
     [kind |-> "evmauth_token", token |-> SessionTokenOf(DEMO_WALLET_ADDRESS)]}
XAuthTokenHeaders ==
    {[present |-> FALSE, token |-> NoToken], [present |-> TRUE, token |-> GarbageToken],
     [present |-> TRUE, token |-> SessionTokenOf(WalletA)]}
Requests == [pathname : Pathnames, authorization : AuthorizationHeaders,
             cookie : CookieHeaders, xAuthToken : XAuthTokenHeaders]
NoRequest == [pathname |-> <<"">>, authorization |-> [scheme |-> "none", token |-> NoToken],
              cookie |-> [kind |-> "none", token |-> NoToken],
              xAuthToken |-> [present |-> FALSE, token |-> NoToken]]

\* the call ends in the catch block
Caught ==
    /\ mwPc' = middlewareCatch.pc
    /\ response' = middlewareCatch.response

\* the call ends with the response made from the result of processAuth
Returned(res) ==
    /\ mwPc' = "done"
    /\ result' = res
    /\ response' = createMiddlewareResponse(res)

\* middleware(request) up to the first await of processAuth; `fault` is an unexpected
\* exception thrown by something it calls
middleware(req, fault) ==
    /\ mwPc = "idle"
    /\ val.pc = "idle"
    /\ request' = req
    /\ val' = NoVal
    /\ authPayload' = NoPayload
    /\ LET context == createMiddlewareContext(req)
           extracted == extractAuthToken(req)
       IN  IF fault
           THEN Caught /\ token' = NoToken /\ result' = NoMiddlewareResult
           ELSE IF shouldExcludePath(context.pathname)
           THEN /\ mwPc' = "done"
                /\ response' = NextResponse(Null)
                /\ token' = NoToken
                /\ result' = NoMiddlewareResult
           ELSE IF ~context.isProtectedPath
           THEN Returned(SkippedResult) /\ token' = NoToken
           ELSE IF extracted.threw
           THEN Caught /\ token' = NoToken /\ result' = NoMiddlewareResult
           ELSE IF extracted.token.form = "empty"
           THEN /\ Returned(UnauthenticatedResult(context, "AUTH_MISSING",
                                                  "Authentication required"))
                /\ token' = NoToken
           ELSE /\ mwPc' = "verifying"
                /\ token' = extracted.token
                /\ result' = NoMiddlewareResult
                /\ response' = NoResponse
    /\ UNCHANGED <<now, JWT_SECRET, fn, eventVars, challengeVars>>

\* processAuth after `await verifyAuthToken(token)`, up to `await validateToken(...)`
processAuthVerified(fault) ==
    /\ mwPc = "verifying"
    /\ LET context == createMiddlewareContext(request)
           payload == verifyAuthToken(token)
       IN  IF fault
           THEN Caught /\ UNCHANGED <<authPayload, val, result>>
           ELSE IF payload = NoPayload
           THEN /\ Returned(UnauthenticatedResult(context, "AUTH_INVALID",
                                                  "Invalid or expired authentication"))
                /\ UNCHANGED <<authPayload, val>>
           ELSE IF ~context.hasTokenRequirement
           THEN /\ Returned(AuthenticatedResult(payload.walletAddress))
                /\ authPayload' = payload
                /\ UNCHANGED val
           ELSE /\ authPayload' = payload
                /\ val' = validateTokenCalled(payload.walletAddress, context.tokenRequirement)
                /\ mwPc' = "validating"
                /\ UNCHANGED <<result, response>>
    /\ UNCHANGED <<now, JWT_SECRET, fn, eventVars, challengeVars, request, token>>

\* processAuth after `await validateToken(...)`
processAuthValidated(fault) ==
    /\ mwPc = "validating"
    /\ val.pc = "returned"
    /\ LET context == createMiddlewareContext(request) IN
           IF \/ fault
              \/ /\ ~val.result.isValid
                 /\ context.isApiRoute
                 /\ createApiErrorResponseThrows(val.result.errorCode)
           THEN Caught /\ UNCHANGED result
           ELSE Returned(ValidatedResult(context, authPayload.walletAddress, val.result))
    /\ UNCHANGED <<now, JWT_SECRET, fn, eventVars, challengeVars, request, token, authPayload, val>>

----------------------------------------------------------------------------
(* Functions called on their own, as the tests and the route handlers call them *)

NoFn == [name |-> "", pathname |-> <<"">>, errorCode |-> "", message |-> NoMessage,
         token |-> NoToken, nowSec |-> 0, requirement |-> [tokenId |-> 0, amount |-> 0],
         response |-> NoResponse, payload |-> NoPayload, threw |-> FALSE,
         walletAddress |-> Null, expirySeconds |-> 0, request |-> NoRequest]

\* the messages a caller can pass: none, or one of its own
MessageInputs == {NoMessage, Message("Custom error message", 0, 0, 0)}

\* the tokens a caller can present: none, garbage, forged, a session token, and tokens
\* the server signed whose payload lacks a field
TokenInputs ==
    {NoToken, GarbageToken, ForgedToken, SessionTokenOf(WalletA),
     [SessionTokenOf(WalletA) EXCEPT !.payload.walletAddress = Null],
     [SessionTokenOf(WalletA) EXCEPT !.payload.issuedAt = 0],
     [SessionTokenOf(WalletA) EXCEPT !.payload.expiresAt = 0]}

\* getTokenRequirementForPath(pathname)
callGetTokenRequirementForPath(pathname) ==
    /\ fn' = [NoFn EXCEPT !.name = "getTokenRequirementForPath",
                          !.pathname = pathname,
                          !.requirement = getTokenRequirementForPath(pathname)]
    /\ UNCHANGED <<now, JWT_SECRET, challengeVars, requestVars, eventVars>>

\* createPageErrorRedirect(errorCode, {pathname, message})
callCreatePageErrorRedirect(errorCode, pathname, message) ==
    /\ fn' = [NoFn EXCEPT !.name = "createPageErrorRedirect",
                          !.errorCode = errorCode,
                          !.pathname = pathname,
                          !.message = message,
                          !.response = createPageErrorRedirect(errorCode, pathname, message)]
    /\ UNCHANGED <<now, JWT_SECRET, challengeVars, requestVars, eventVars>>

\* await verifyAuthToken(token): the whole body is inside try, and catch returns null
callVerifyAuthToken(tok) ==
    /\ fn' = [NoFn EXCEPT !.name = "verifyAuthToken",
                          !.token = tok,
                          !.nowSec = NowSec,
                          !.payload = verifyAuthToken(tok),
                          !.threw = FALSE]
    /\ UNCHANGED <<now, JWT_SECRET, challengeVars, requestVars, eventVars>>

\* the expirySeconds a caller can pass: 0 for "not given", and numbers of seconds
ExpirySecondsInputs == {0 - 1, 0, 1, TokenExpirySecs + 1}

\* await createAuthToken(walletAddress, { expirySeconds })
callCreateAuthToken(walletAddress, expirySeconds) ==
    /\ fn' = IF createAuthTokenThrows(walletAddress)
             THEN [NoFn EXCEPT !.name = "createAuthToken",
                               !.walletAddress = walletAddress,
                               !.expirySeconds = expirySeconds,
                               !.nowSec = NowSec,
                               !.threw = TRUE]
             ELSE [NoFn EXCEPT !.name = "createAuthToken",
                               !.walletAddress = walletAddress,
                               !.expirySeconds = expirySeconds,
                               !.nowSec = NowSec,
                               !.payload = AuthTokenPayload(walletAddress, 0, expirySeconds),
                               !.token = SignJWT(AuthTokenPayload(walletAddress, 0,
                                                                  expirySeconds))]
    /\ UNCHANGED <<now, JWT_SECRET, challengeVars, requestVars, eventVars>>

\* the headers a request can bring; extractAuthToken does not read the path
HeaderInputs == {req \in Requests : req.pathname = <<"">>}

\* extractAuthToken(req)
callExtractAuthToken(req) ==
    /\ fn' = [NoFn EXCEPT !.name = "extractAuthToken",
                          !.request = req,
                          !.threw = extractAuthToken(req).threw,
                          !.token = extractAuthToken(req).token]
    /\ UNCHANGED <<now, JWT_SECRET, challengeVars, requestVars, eventVars>>

----------------------------------------------------------------------------
(* The SDK's event subscriptions (EVMAuth.onTransferSingle, onTokenPurchased and *)
(* the other on* methods, which all have the same shape)                        *)

Callbacks == {"cb1", "cb2"}
EventNames == {"TransferSingle", "TokenPurchased"}
\* an account filter: Null for none, or an address
AccountFilters == {Null, WalletA}
\* a contract event: its name and the account it concerns
ContractEvents == [name : EventNames, account : {WalletA, WalletB}]
NoEvent == [name |-> "", account |-> Null]

\* this.contract.filters.<Event>(..., accountFilter, ...)
EventFilter(name, accountFilter) == [name |-> name, account |-> accountFilter]
FilterMatches(filter, event) ==
    /\ filter.name = event.name
    /\ filter.account = Null \/ filter.account = event.account

\* the arrow function on* hands to contract.on: a new function that calls callback
Wrapper(callback) == [kind |-> "wrapper", callback |-> callback]
\* the caller's callback itself, which is what the returned function hands to contract.off
Callback(callback) == [kind |-> "callback", callback |-> callback]

NoSubscription == [state |-> "none", filter |-> EventFilter("", Null)]

\* contract.on(filter, listener): the listener is added
contractOn(registered, filter, listener) ==
    registered \cup {[filter |-> filter, listener |-> listener]}
\* contract.off(filter, listener): the listener that was registered for the filter, the
\* same function, is removed; a function that was never registered removes nothing
contractOff(registered, filter, listener) ==
    registered \ {[filter |-> filter, listener |-> listener]}

\* const unsubscribe = evmAuth.on<Event>(callback, accountFilter)
onEvent(callback, name, accountFilter) ==
    /\ subscriptions[callback].state = "none"
    /\ listeners' = contractOn(listeners, EventFilter(name, accountFilter),
                               Wrapper(callback))
    /\ subscriptions' = [subscriptions EXCEPT ![callback] =
            [state |-> "subscribed", filter |-> EventFilter(name, accountFilter)]]
    /\ emitted' = NoEvent
    /\ invoked' = {}
    /\ UNCHANGED <<now, JWT_SECRET, challengeVars, requestVars, fn>>

\* unsubscribe(): the function on<Event> returned
unsubscribe(callback) ==
    /\ subscriptions[callback].state = "subscribed"
    /\ listeners' = contractOff(listeners, subscriptions[callback].filter,
                                Callback(callback))
    /\ subscriptions' = [subscriptions EXCEPT ![callback].state = "unsubscribed"]
    /\ emitted' = NoEvent
    /\ invoked' = {}
    /\ UNCHANGED <<now, JWT_SECRET, challengeVars, requestVars, fn>>

\* the contract emits an event: every registered listener whose filter matches runs,
\* and a wrapper calls its callback
contractEmits(event) ==
    /\ emitted' = event
    /\ invoked' = {l.listener.callback : l \in {r \in listeners : FilterMatches(r.filter, event)}}
    /\ UNCHANGED <<now, JWT_SECRET, challengeVars, requestVars, fn, listeners, subscriptions>>

----------------------------------------------------------------------------
(* The challenge store: calls of verifySignature, one after the other *)

InitChallenge ==
    /\ now = StartTime
    /\ JWT_SECRET = "server-secret"
    /\ CHALLENGE_STORE = <<>>
    /\ timers = {}
    /\ nextNonce = 1
    /\ callerPc = [c \in Callers |-> "idle"]
    /\ callerCall = [c \in Callers |-> NoCall]
    /\ callerResult = [c \in Callers |-> NoResult]
    /\ issued = {}
    /\ lastVerify = NoVerify
    /\ histExpiresAt = [n \in Nonces |-> 0]
    /\ histCalled = [n \in Nonces |-> FALSE]
    /\ histSuccesses = [n \in Nonces |-> 0]
    /\ val = NoVal
    /\ mwPc = "idle"
    /\ request = NoRequest
    /\ token = NoToken
    /\ authPayload = NoPayload
    /\ result = NoMiddlewareResult
    /\ response = NoResponse
    /\ fn = NoFn
    /\ listeners = {}
    /\ subscriptions = [callback \in Callbacks |-> NoSubscription]
    /\ emitted = NoEvent
    /\ invoked = {}

NextChallenge ==
    \/ generateChallenge
    \/ \E t \in timers : cleanup(t)
    \/ \E n \in Nonces : \E s \in Signatures(n) : verifySignature(n, s)
    \/ Tick

SpecChallenge == InitChallenge /\ [][NextChallenge]_vars

(* The challenge store under concurrent authenticateUser calls *)

InitConcurrent ==
    /\ InitChallenge

NextConcurrent ==
    \/ generateChallenge
    \/ \E t \in timers : cleanup(t)
    \/ \E c \in Callers, n \in Nonces : \E s \in Signatures(n) : authenticateUser(c, n, s)
    \/ \E c \in Callers : authenticateUserSigned(c)
    \/ Tick

SpecConcurrent == InitConcurrent /\ [][NextConcurrent]_vars

----------------------------------------------------------------------------
(* Logging in: by a signed challenge, or as the demo wallet *)

\* await authenticateDemoWallet(), as GET /api/auth/login-demo calls it;
\* validateDemoWalletConfig throws when the demo wallet is not configured, and the
\* catch block answers SERVER_ERROR
authenticateDemoWallet(demoConfigured) ==
    /\ IF ~demoConfigured \/ createAuthTokenThrows(DEMO_WALLET_ADDRESS)
       THEN /\ fn' = [NoFn EXCEPT !.name = "authenticateDemoWallet",
                                  !.errorCode = "SERVER_ERROR"]
            /\ UNCHANGED issued
       ELSE /\ fn' = [NoFn EXCEPT !.name = "authenticateDemoWallet",
                                  !.walletAddress = DEMO_WALLET_ADDRESS,
                                  !.token = SignJWT(AuthTokenPayload(DEMO_WALLET_ADDRESS,
                                                                     0, 0))]
            /\ issued' = issued \cup {SignJWT(AuthTokenPayload(DEMO_WALLET_ADDRESS, 0, 0))}
    /\ lastVerify' = NoVerify
    /\ UNCHANGED <<requestVars, now, JWT_SECRET, eventVars, CHALLENGE_STORE, timers, nextNonce,
                   callerPc, callerCall, callerResult, histExpiresAt, histCalled,
                   histSuccesses>>

InitLogin ==
    /\ InitChallenge

NextLogin ==
    \/ generateChallenge
    \/ \E t \in timers : cleanup(t)
    \/ \E n \in Nonces : \E s \in Signatures(n) : authenticateUser("c1", n, s)
    \/ authenticateUserSigned("c1")
    \/ \E demoConfigured \in BOOLEAN : authenticateDemoWallet(demoConfigured)
    \/ Tick

SpecLogin == InitLogin /\ [][NextLogin]_vars

----------------------------------------------------------------------------
(* The SDK's event subscriptions: callers subscribe and unsubscribe while the *)
(* contract emits events                                                     *)

InitEvents ==
    /\ InitChallenge

NextEvents ==
    \/ \E callback \in Callbacks, name \in EventNames, accountFilter \in AccountFilters :
          onEvent(callback, name, accountFilter)
    \/ \E callback \in Callbacks : unsubscribe(callback)
    \/ \E event \in ContractEvents : contractEmits(event)

SpecEvents == InitEvents /\ [][NextEvents]_vars

----------------------------------------------------------------------------
(* The validator, called on its own *)

InitValidator ==
    /\ InitChallenge

NextValidator ==
    \/ \E w \in WalletInputs, r \in RequirementInputs : validateToken(w, r)
    \/ \E k \in BOOLEAN, o \in LedgerOutcomes : demoQuerySettles(k, o)
    \/ \E o \in LedgerOutcomes : ledgerQuerySettles(o)

SpecValidator == InitValidator /\ [][NextValidator]_vars

\* The validator when a validation is certain to be asked for.  The code sets no
\* timer and passes no cancellation signal around `await auth.balanceOf(...)`, so the
\* steps after the call are the ledger's answers alone, and nothing obliges the ledger
\* to give one: no fairness is stated for them
SpecValidatorFair ==
    /\ SpecValidator
    /\ WF_vars(\E w \in WalletInputs, r \in RequirementInputs : validateToken(w, r))

----------------------------------------------------------------------------
(* The middleware handling a request that arrives at some time; requests share *)
(* nothing but the clock, the secret and the ledger, which answers each query  *)
(* on its own                                                                  *)

Init ==
    /\ now = StartTime
    /\ JWT_SECRET \in {"", "server-secret"}
    /\ CHALLENGE_STORE = <<>>
    /\ timers = {}
    /\ nextNonce = 1
    /\ callerPc = [c \in Callers |-> "idle"]
    /\ callerCall = [c \in Callers |-> NoCall]
    /\ callerResult = [c \in Callers |-> NoResult]
    /\ issued = {}
    /\ lastVerify = NoVerify
    /\ histExpiresAt = [n \in Nonces |-> 0]
    /\ histCalled = [n \in Nonces |-> FALSE]
    /\ histSuccesses = [n \in Nonces |-> 0]
    /\ val = NoVal
    /\ mwPc = "idle"
    /\ request = NoRequest
    /\ token = NoToken
    /\ authPayload = NoPayload
    /\ result = NoMiddlewareResult
    /\ response = NoResponse
    /\ fn = NoFn
    /\ listeners = {}
    /\ subscriptions = [callback \in Callbacks |-> NoSubscription]
    /\ emitted = NoEvent
    /\ invoked = {}

Next ==
    \/ \E req \in Requests, fault \in BOOLEAN : middleware(req, fault)
    \/ \E fault \in BOOLEAN : processAuthVerified(fault)
    \/ \E k \in BOOLEAN, o \in LedgerOutcomes : demoQuerySettles(k, o)
    \/ \E o \in LedgerOutcomes : ledgerQuerySettles(o)
    \/ \E fault \in BOOLEAN : processAuthValidated(fault)
    \/ Tick

Spec == Init /\ [][Next]_vars

----------------------------------------------------------------------------
(* Functions applied to the inputs a caller can give them, at any time *)

InitFunctions ==
    /\ Init

NextFunctions ==
    \/ \E pathname \in Pathnames : callGetTokenRequirementForPath(pathname)
    \/ \E errorCode \in ErrorKinds, pathname \in Pathnames, message \in MessageInputs :
          callCreatePageErrorRedirect(errorCode, pathname, message)
    \/ \E tok \in TokenInputs : callVerifyAuthToken(tok)
    \/ \E walletAddress \in WalletInputs, expirySeconds \in ExpirySecondsInputs :
          callCreateAuthToken(walletAddress, expirySeconds)
    \/ \E req \in HeaderInputs : callExtractAuthToken(req)
    \/ Tick

SpecFunctions == InitFunctions /\ [][NextFunctions]_vars

----------------------------------------------------------------------------
(* Properties of the challenge store *)

\* C2: once a verifySignature call on a nonce has returned an address, every later
\* call on that nonce returns null, whatever the signature; and the first call on a
\* generated nonce made before expiry with a well-formed signature returns the
\* address recovered from the challenge message.
C2_OneTimeConsumption ==
    lastVerify.called =>
        /\ (lastVerify.priorSuccesses > 0 => lastVerify.result = Null)
        /\ (/\ lastVerify.generated
            /\ lastVerify.priorSuccesses = 0
            /\ lastVerify.signature.wellFormed
            /\ lastVerify.nowSec < lastVerify.expiresAt)
           => /\ lastVerify.result # Null
              /\ lastVerify.result =
                    verifyMessage(ChallengeMessage(lastVerify.nonce), lastVerify.signature)

\* a replay: the nonce was consumed, the same valid signature comes again before the
\* expiry time, and the call returns null
C2_Witness ==
    /\ lastVerify.called
    /\ lastVerify.priorSuccesses = 1
    /\ lastVerify.signature.wellFormed
    /\ lastVerify.signature.message = ChallengeMessage(lastVerify.nonce)
    /\ lastVerify.nowSec < lastVerify.expiresAt
    /\ lastVerify.result = Null

\* C3: of the authenticateUser calls in flight or returned, at most one per nonce got
\* an address from verifySignature; the others saw null.
C3_AtMostOneWinner ==
    /\ \A n \in Nonces : histSuccesses[n] <= 1
    /\ \A c1, c2 \in Callers :
          (c1 # c2 /\ callerCall[c1].nonce # 0
                   /\ callerCall[c1].nonce = callerCall[c2].nonce)
          => (callerCall[c1].walletAddress = Null \/ callerCall[c2].walletAddress = Null)

\* two calls on one nonce, both with the right signature: the first is still waiting
\* for its token when the second is answered AUTH_INVALID
C3_Witness ==
    \E c1, c2 \in Callers :
        /\ c1 # c2
        /\ callerCall[c1].nonce # 0
        /\ callerCall[c1].nonce = callerCall[c2].nonce
        /\ callerCall[c1].signature.wellFormed
        /\ callerCall[c1].signature = callerCall[c2].signature
        /\ callerCall[c1].signature.message = ChallengeMessage(callerCall[c1].nonce)
        /\ callerPc[c1] = "signing"
        /\ callerCall[c1].walletAddress = WalletA
        /\ callerPc[c2] = "returned"
        /\ callerResult[c2].errorCode = "AUTH_INVALID"
        /\ histSuccesses[callerCall[c1].nonce] = 1

\* C4: a verifySignature call made at a time now >= expiresAt of its nonce returns null.
C4_ExpiredUnconsumable ==
    (lastVerify.called /\ lastVerify.generated
        /\ lastVerify.nowSec >= lastVerify.expiresAt)
    => lastVerify.result = Null

\* C5: a verifySignature call on a nonce that was already the subject of a call
\* returns null, whatever the first call returned.
C5_SecondCallNull ==
    (lastVerify.called /\ lastVerify.priorCall) => lastVerify.result = Null

----------------------------------------------------------------------------
(* Properties of the validator *)

LastOutcome == val.ledger[Len(val.ledger)]

\* C6: a validation of a well-formed address whose last balance query gave b, against
\* a required amount a, is valid exactly when b >= a; b = 0 gives TOKEN_MISSING and
\* 0 < b < a gives TOKEN_INSUFFICIENT, both retryable and carrying actualBalance = b.
C6_BalanceClassification ==
    (/\ val.pc = "returned"
     /\ IsHexAddress(val.walletAddress)
     /\ val.ledger # <<>>
     /\ LastOutcome # LedgerFailure)
    => /\ val.result.isValid <=> (LastOutcome >= val.amount)
       /\ LastOutcome = 0 => val.result.errorCode = "TOKEN_MISSING"
       /\ (0 < LastOutcome /\ LastOutcome < val.amount)
            => val.result.errorCode = "TOKEN_INSUFFICIENT"
       /\ ~val.result.isValid
            => /\ val.result.hasRetryable /\ val.result.retryable
               /\ val.result.hasBalance
               /\ val.result.actualBalance = LastOutcome

\* the boundary: a balance equal to a required amount above 1 is valid
C6_Witness ==
    /\ val.pc = "returned"
    /\ val.walletAddress = WalletA
    /\ val.amount = MaxAmount
    /\ val.ledger = <<MaxAmount>>
    /\ val.result.isValid

\* C7: a validation whose balance query failed is invalid with CONTRACT_ERROR,
\* retryable, without actualBalance; and a validateToken call only ever ends by
\* returning a result.
C7_LedgerFailure ==
    /\ val.pc \in {"idle", "demoQuery", "ledgerQuery", "returned"}
    /\ (/\ val.pc = "returned"
        /\ val.ledger # <<>>
        /\ LastOutcome = LedgerFailure)
       => /\ ~val.result.isValid
          /\ val.result.errorCode = "CONTRACT_ERROR"
          /\ val.result.hasRetryable /\ val.result.retryable
          /\ ~val.result.hasBalance

\* the ledger fails for an ordinary wallet
C7_Witness ==
    /\ val.pc = "returned"
    /\ val.walletAddress = WalletA
    /\ val.ledger = <<LedgerFailure>>
    /\ val.result.errorCode = "CONTRACT_ERROR"

----------------------------------------------------------------------------
(* Properties of the middleware *)

Finished == mwPc \in {"done", "caught"}
Guarded == isProtectedPath(request.pathname) /\ ~shouldExcludePath(request.pathname)

\* the number a decimal string denotes
DigitValue(c) == CHOOSE d \in 0..9 : Digit(d) = c
RECURSIVE ParseDecimal(_)
ParseDecimal(str) ==
    IF Len(str) = 0 THEN 0
    ELSE 10 * ParseDecimal(SubSeq(str, 1, Len(str) - 1)) + DigitValue(str[Len(str)])

\* C1: a request to a protected, non-excluded path is passed on only if a token was
\* extracted, it verified to a payload, and the validator returned isValid for the
\* path's requirement and the payload's wallet address; otherwise the middleware
\* answers with an error response or a redirect.
C1_PassThroughOnlyIfValid ==
    (Finished /\ Guarded)
    => /\ response.kind \in {"next", "json", "redirect"}
       /\ response.kind = "next"
            => /\ mwPc = "done"
               /\ token.form # "empty"
               /\ token = extractAuthToken(request).token
               /\ authPayload # NoPayload
               /\ authPayload = token.payload
               /\ val.pc = "returned"
               /\ val.result.isValid
               /\ val.walletAddress = authPayload.walletAddress
               /\ [tokenId |-> val.tokenId, amount |-> val.amount]
                    = getTokenRequirementForPath(request.pathname)

\* a request with a good token of a wallet that holds the token is passed on
C1_Witness ==
    /\ mwPc = "done"
    /\ Guarded
    /\ response.kind = "next"
    /\ response.walletHeader = WalletA
    /\ val.result.isValid

\* C8: every exception that reaches the middleware ends in its catch block, which
\* answers with the SERVER_ERROR redirect; the middleware call never ends by raising.
C8_ExceptionsCaught ==
    /\ mwPc # "raised"
    /\ mwPc = "caught"
         => /\ response.kind = "redirect"
            /\ response.location.page = "/error"
            /\ response.location.code = "SERVER_ERROR"
    /\ (Finished /\ Guarded /\ extractAuthToken(request).threw) => mwPc = "caught"

\* a cookie that decodeURIComponent rejects, on a protected path
C8_Witness ==
    /\ mwPc = "caught"
    /\ Guarded
    /\ request.cookie.kind = "undecodable"
    /\ extractAuthToken(request).threw
    /\ response.location.code = "SERVER_ERROR"

\* C9: on a protected, non-excluded path, a request from which no token can be
\* extracted ends unauthenticated with AUTH_MISSING; one whose token verifies to null
\* ends unauthenticated with AUTH_INVALID.
C9_SessionCheck ==
    (mwPc = "done" /\ Guarded)
    => /\ (~extractAuthToken(request).threw
            /\ extractAuthToken(request).token.form = "empty")
           => /\ result.returned /\ ~result.isAuthenticated
              /\ result.hasError /\ result.error.code = "AUTH_MISSING"
       /\ (token.form # "empty" /\ authPayload = NoPayload)
           => /\ result.returned /\ ~result.isAuthenticated
              /\ result.hasError /\ result.error.code = "AUTH_INVALID"

\* a forged token on a protected page
C9_Witness ==
    /\ mwPc = "done"
    /\ Guarded
    /\ token = ForgedToken
    /\ JWT_SECRET = "server-secret"
    /\ result.error.code = "AUTH_INVALID"
    /\ response.kind = "redirect"

\* C10: with a verified session on a protected path the validator is called with the
\* session's wallet address and the path's requirement, and when it returns invalid
\* the result is not authenticated and carries the validator's errorCode, message,
\* retryable, tokenId, requiredAmount and actualBalance.
C10_TokenCheck ==
    (mwPc = "done" /\ Guarded /\ authPayload # NoPayload)
    => /\ val.pc = "returned"
       /\ val.walletAddress = authPayload.walletAddress
       /\ [tokenId |-> val.tokenId, amount |-> val.amount]
            = getTokenRequirementForPath(request.pathname)
       /\ ~val.result.isValid
            => /\ result.returned /\ ~result.isAuthenticated /\ result.hasError
               /\ result.error.code = val.result.errorCode
               /\ result.error.message = val.result.message
               /\ result.error.retryable = val.result.retryable
               /\ result.error.hasDetails
               /\ result.error.details.tokenId = val.result.tokenId
               /\ result.error.details.requiredAmount = val.result.requiredAmount
               /\ IF val.result.hasBalance
                  THEN ParseDecimal(result.error.details.actualBalance)
                         = val.result.actualBalance
                  ELSE result.error.details.actualBalance = Null

\* the ledger fails while a premium API route is checked
C10_Witness ==
    /\ mwPc = "done"
    /\ request.pathname = <<"api", "protected", "premium">>
    /\ authPayload.walletAddress = WalletA
    /\ val.tokenId = 1
    /\ val.result.errorCode = "CONTRACT_ERROR"
    /\ result.error.code = "CONTRACT_ERROR"
    /\ result.error.details.actualBalance = Null
    /\ response.kind = "json"

C12_ExcludedPassThrough ==
    (/\ Finished
     /\ \E path \in STATIC_PATHS \cup AUTH_PATHS : PathUnder(request.pathname, path))
    => /\ mwPc = "done" => (response.kind = "next" /\ response.walletHeader = Null)
       /\ token = NoToken
       /\ authPayload = NoPayload
       /\ val = NoVal
       /\ result = NoMiddlewareResult

\* an auth endpoint called with a cookie that cannot be decoded and a forged token
C12_Witness ==
    /\ mwPc = "done"
    /\ request.pathname = <<"api", "auth", "challenge">>
    /\ request.cookie.kind = "undecodable"
    /\ request.xAuthToken.token = GarbageToken
    /\ response.kind = "next"

\* C13: a request to a path that is neither excluded nor protected is passed on:
\* processAuth returns isAuthenticated = true without error or response, no token is
\* extracted or verified and the validator is not called.
C13_UnprotectedPassThrough ==
    (/\ mwPc = "done"
     /\ ~(\E path \in STATIC_PATHS \cup AUTH_PATHS : PathUnder(request.pathname, path))
     /\ ~(\E prefix \in PROTECTED_PATH_PREFIXES : PathUnder(request.pathname, prefix)))
    => /\ result.returned /\ result.isAuthenticated
       /\ ~result.hasError /\ result.error = NoError
       /\ result.response = NoResponse
       /\ response.kind = "next"
       /\ token = NoToken
       /\ authPayload = NoPayload
       /\ val = NoVal

\* "/protectedx" only resembles a protected prefix; its cookie cannot be decoded
C13_Witness ==
    /\ mwPc = "done"
    /\ request.pathname = <<"protectedx">>
    /\ request.cookie.kind = "undecodable"
    /\ request.authorization.scheme = "none"
    /\ result.isAuthenticated
    /\ response.kind = "next"

\* the request got something else than a pass-through
Failed == Finished /\ response.kind # "next"
IsApiRoute == createMiddlewareContext(request).isApiRoute

\* C14: every failure, the SERVER_ERROR of the catch block included, is answered on an
\* API route with a JSON body that has a code of the taxonomy, and on a page route
\* with a redirect.
C14_ResponseByRouteType ==
    Failed
    => IF IsApiRoute
       THEN response.kind = "json" /\ response.body.code \in ErrorKinds
       ELSE response.kind = "redirect"

\* C15: the status of an error outcome, in the API response and in error.status of the
\* result of processAuth, is the status ERROR_CODES gives for its code.
C15_StatusOfErrorKind ==
    /\ (mwPc = "done" /\ response.kind = "json")
          => response.status = ERROR_CODES(response.body.code).status
    /\ (mwPc = "done" /\ result.hasError)
          => result.error.status = ERROR_CODES(result.error.code).status

\* C16: on an API route, a verified session whose wallet has balance 0 of the required
\* token is answered with status 403 and a JSON body with code TOKEN_MISSING whose
\* first resolution step is 'authenticate'.
C16_TokenMissingOnApiRoute ==
    (/\ mwPc = "done" /\ Guarded /\ IsApiRoute
     /\ authPayload # NoPayload
     /\ val.pc = "returned" /\ val.ledger # <<>> /\ LastOutcome = 0)
    => /\ response.kind = "json"
       /\ response.status = 403
       /\ response.body.code = "TOKEN_MISSING"
       /\ response.body.hasResolution
       /\ response.body.steps[1] = "authenticate"

\* C17: every redirect answered on a page route carries returnUrl, equal to the path
\* of the request.
C17_RedirectCarriesReturnUrl ==
    (Finished /\ ~IsApiRoute /\ response.kind = "redirect")
    => /\ response.location.hasReturnUrl
       /\ response.location.returnUrl = request.pathname

----------------------------------------------------------------------------
(* Properties of the functions *)

\* C18: the page a page route is redirected to depends on the error code alone: the
\* login page for AUTH_MISSING and AUTH_INVALID; the token page for TOKEN_MISSING,
\* TOKEN_INSUFFICIENT and TOKEN_EXPIRED, with the tokenId of the path's requirement,
\* the error code, and the message if one was given; the error page with the code for
\* every other code.
C18_RedirectByErrorKind ==
    fn.name = "createPageErrorRedirect"
    => LET location == fn.response.location IN
       /\ fn.response.kind = "redirect"
       /\ fn.errorCode \in {"AUTH_MISSING", "AUTH_INVALID"} => location.page = "/login"
       /\ fn.errorCode \in {"TOKEN_MISSING", "TOKEN_INSUFFICIENT", "TOKEN_EXPIRED"}
            => /\ location.page = "/token-required"
               /\ location.hasTokenId
               /\ location.tokenId = getTokenRequirementForPath(fn.pathname).tokenId
               /\ location.error = fn.errorCode
               /\ location.hasMessage <=> fn.message # NoMessage
               /\ location.hasMessage => location.message = fn.message
       /\ fn.errorCode \in {"CONTRACT_ERROR", "SERVER_ERROR", "INVALID_REQUEST"}
            => /\ location.page = "/error"
               /\ location.code = fn.errorCode

\* an expired token on a premium page, with a message
C18_Witness ==
    /\ fn.name = "createPageErrorRedirect"
    /\ fn.errorCode = "TOKEN_EXPIRED"
    /\ fn.pathname = <<"protected", "premium">>
    /\ fn.message # NoMessage
    /\ fn.response.location.page = "/token-required"
    /\ fn.response.location.tokenId = 1
    /\ fn.response.location.hasMessage

\* C19: getTokenRequirementForPath returns the entry of TOKEN_REQUIREMENTS for a path
\* that is a key of it; else the entry of the longest protected prefix the path lies
\* under; else the default. '/protected/premium' gets the premium requirement.
C19_ResolveRequirement ==
    fn.name = "getTokenRequirementForPath"
    => LET matching == {prefix \in PROTECTED_PATH_PREFIXES :
                            StartsWithSlash(fn.pathname, prefix)}
       IN
       /\ fn.pathname \in RequirementPaths
            => fn.requirement = TOKEN_REQUIREMENTS(fn.pathname)
       /\ (fn.pathname \notin RequirementPaths /\ matching # {})
            => \E prefix \in matching :
                  /\ \A other \in matching : PrefixLength(other) <= PrefixLength(prefix)
                  /\ fn.requirement = TOKEN_REQUIREMENTS(prefix)
       /\ (fn.pathname \notin RequirementPaths /\ matching = {})
            => fn.requirement = DefaultRequirement
       /\ fn.pathname \in {<<"protected", "premium">>, <<"api", "protected", "premium">>}
            => fn.requirement = [tokenId |-> 1, amount |-> 1]

\* '/protected/premium' is a key of the table and lies under the prefix '/protected'
C19_Witness ==
    /\ fn.name = "getTokenRequirementForPath"
    /\ fn.pathname = <<"protected", "premium">>
    /\ StartsWithSlash(fn.pathname, <<"protected">>)
    /\ fn.requirement.tokenId = 1

\* C20: verifyAuthToken does not throw; it returns the payload of a token that is a
\* JWT signed with the server's secret, not expired, with walletAddress, issuedAt and
\* expiresAt in its payload, and null for every other token.
C20_VerifyReturnsNull ==
    fn.name = "verifyAuthToken"
    => /\ ~fn.threw
       /\ IF /\ fn.token.form = "jwt"
             /\ JWT_SECRET # "" /\ fn.token.key = JWT_SECRET
             /\ fn.token.exp > fn.nowSec
             /\ fn.token.payload.walletAddress # Null
             /\ fn.token.payload.issuedAt # 0
             /\ fn.token.payload.expiresAt # 0
          THEN fn.payload = fn.token.payload /\ fn.payload # NoPayload
          ELSE fn.payload = NoPayload

\* a session token presented in the second of its exp
C20_Witness ==
    /\ fn.name = "verifyAuthToken"
    /\ fn.token = SessionTokenOf(WalletA)
    /\ JWT_SECRET = "server-secret"
    /\ fn.nowSec = fn.token.exp
    /\ fn.payload = NoPayload

----------------------------------------------------------------------------
(* Properties of createAuthToken *)

\* C21: createAuthToken fails, and produces no token, for every wallet address that
\* does not match ^0x[0-9a-fA-F]{40}$
C21_BadAddressNoToken ==
    (fn.name = "createAuthToken" /\ ~IsHexAddress(fn.walletAddress))
        => (fn.threw /\ fn.token = NoToken /\ fn.payload = NoPayload)

\* the secret is configured and the address has 40 characters, one of which is no hex digit
C21_Witness ==
    /\ fn.name = "createAuthToken"
    /\ JWT_SECRET = "server-secret"
    /\ fn.walletAddress = Addr("g", HexLen)
    /\ fn.threw

\* C26: every payload createAuthToken issues has expiresAt > issuedAt and a wallet
\* address of the hex-40 form, whatever expirySeconds the caller gave
C26_PayloadWellFormed ==
    (fn.name = "createAuthToken" /\ ~fn.threw)
        => (/\ fn.token.form = "jwt"
            /\ fn.token.payload.expiresAt > fn.token.payload.issuedAt
            /\ IsHexAddress(fn.token.payload.walletAddress))

----------------------------------------------------------------------------
(* Properties of extractAuthToken *)

\* the request carries something in the Authorization: Bearer header, in the
\* evmauth_token cookie, in the X-Auth-Token header
BearerCarries(req) == req.authorization.scheme = "Bearer" /\ req.authorization.token.form # "empty"
CookieCarries(req) ==
    \/ req.cookie.kind = "undecodable"
    \/ req.cookie.kind = "evmauth_token" /\ req.cookie.token.form # "empty"
FallbackCarries(req) == req.xAuthToken.present /\ req.xAuthToken.token.form # "empty"

\* C22: extractAuthToken returns the token of the first of the Bearer header, the
\* session cookie and the fallback header that carries one, and returns null only when
\* none of the three carries a token
C22_FirstCarrierWins ==
    fn.name = "extractAuthToken"
        => /\ ~fn.threw
           /\ BearerCarries(fn.request) => fn.token = fn.request.authorization.token
           /\ (~BearerCarries(fn.request) /\ CookieCarries(fn.request))
                 => fn.token = fn.request.cookie.token
           /\ (~BearerCarries(fn.request) /\ ~CookieCarries(fn.request)
                 /\ FallbackCarries(fn.request))
                 => fn.token = fn.request.xAuthToken.token
           /\ fn.token = NoToken
                 => (~BearerCarries(fn.request) /\ ~CookieCarries(fn.request)
                     /\ ~FallbackCarries(fn.request))

----------------------------------------------------------------------------
(* Properties of the validator's address check *)

\* C23: for a wallet address that is not of the hex-40 form validateToken returns
\* isValid = false, AUTH_INVALID, retryable = true, and no ledger query is made for the call
C23_BadAddressNoLedger ==
    (val.pc # "idle" /\ ~IsHexAddress(val.walletAddress))
        => /\ val.pc = "returned"
           /\ val.ledger = <<>>
           /\ ~val.result.isValid
           /\ val.result.errorCode = "AUTH_INVALID"
           /\ val.result.hasRetryable /\ val.result.retryable

\* a call with an address one character short has returned
C23_Witness ==
    /\ val.pc = "returned"
    /\ val.walletAddress = Addr("a", HexLen - 1)
    /\ val.result.errorCode = "AUTH_INVALID"

\* C29: for a well-formed address, the demo wallet included, validateToken returns the
\* three-way classification of the balance the ledger reports against the requirement:
\* the same isValid, the same errorCode, and actualBalance equal to that balance
C29_OnlyBalanceAndRequirement ==
    (/\ val.pc = "returned"
     /\ IsHexAddress(val.walletAddress)
     /\ val.ledger # <<>>
     /\ \A i \in DOMAIN val.ledger : val.ledger[i] # LedgerFailure)
        => LET balance == val.ledger[Len(val.ledger)] IN
             /\ val.result.isValid = (balance >= val.amount)
             /\ val.result.errorCode = (IF balance >= val.amount THEN ""
                                         ELSE IF balance = 0 THEN "TOKEN_MISSING"
                                         ELSE "TOKEN_INSUFFICIENT")
             /\ val.result.hasBalance
             /\ val.result.actualBalance = balance

----------------------------------------------------------------------------
(* Properties of the premium paths *)

\* C30: every path below /protected/premium or /api/protected/premium resolves to the
\* premium requirement, token 1
C30_PremiumSubpaths ==
    (/\ fn.name = "getTokenRequirementForPath"
     /\ \/ StartsWithSlash(fn.pathname, <<"protected", "premium">>)
        \/ StartsWithSlash(fn.pathname, <<"api", "protected", "premium">>))
        => fn.requirement.tokenId = 1

----------------------------------------------------------------------------
(* Properties of logging in *)

\* C28: a session token asserting a wallet is issued only after a signature over a
\* stored challenge was verified and recovered to that wallet: every token issued is
\* the token of an authenticateUser call whose verifySignature returned its wallet
C28_TokenOnlyAfterProof ==
    \A tok \in issued :
        \E c \in Callers :
            /\ callerPc[c] = "returned"
            /\ callerResult[c].success
            /\ callerCall[c].walletAddress = tok.payload.walletAddress
            /\ callerCall[c].nonce = tok.payload.nonce
            /\ histSuccesses[callerCall[c].nonce] >= 1

----------------------------------------------------------------------------
(* Properties of the life of a challenge *)

\* C24: every stored challenge has expiresAt = now + ttl of its generation, and no
\* entry remains in the store after its expiry time, the instant expiresAt
C24_NoEntryAfterExpiry ==
    \A nonce \in DOMAIN CHALLENGE_STORE :
        /\ CHALLENGE_STORE[nonce].expiresAt = histExpiresAt[nonce]
        /\ now <= CHALLENGE_STORE[nonce].expiresAt * TicksPerSec

----------------------------------------------------------------------------
(* Properties of the validator's wait for the ledger *)

\* C25: every validation that was started eventually completes, even if the ledger
\* never answers: the wait for the ledger is bounded
C25_ValidationCompletes == (val.pc # "idle") ~> (val.pc = "returned")

----------------------------------------------------------------------------
(* Properties of the SDK's event subscriptions *)

\* C27: a subscribed callback is invoked for each matching contract event until its
\* unsubscribe function is called, and never again afterwards
C27_CallbackUntilUnsubscribe ==
    \A callback \in Callbacks :
        /\ (/\ subscriptions[callback].state = "subscribed"
            /\ emitted # NoEvent
            /\ FilterMatches(subscriptions[callback].filter, emitted))
              => callback \in invoked
        /\ subscriptions[callback].state = "unsubscribed" => callback \notin invoked
====
